---- MODULE Spec2Model ----
(***************************************************************************)
(* Inbox processing of the ActivityPub server service                      *)
(* (internal/activitypub/server.go, client.go) and the two tables it       *)
(* writes (activities, followers).  Every HandleInbox call is a process;   *)
(* its database statements and its outbound HTTP requests are the atomic   *)
(* steps, so that concurrent calls interleave between them.                *)
(***************************************************************************)
EXTENDS Integers, Sequences, FiniteSets, TLC

\* number of HandleInbox calls in one behaviour
MaxCalls == 2

Calls == 1..MaxCalls

\* ------------------------------------------------------------------ data

ActivityTypeFollow == "Follow"
ActivityTypeAccept == "Accept"
ActivityTypeUndo == "Undo"
ActivityTypeLike == "Like"
ObjectTypeNote == "Note"

\* the users table: local user id -> actor_id, private_key
Users == {"alice", "carol"}

UserActorID(u) == IF u = "alice" THEN "https://host/users/alice" ELSE "https://host/users/carol"

UserPrivateKey(u) ==
    IF u = "alice" THEN "valid-pem" ELSE IF u = "carol" THEN "" ELSE "broken-pem"

\* remote actors
Actors == {"X", "Y"}

\* an id a profile document may carry instead of the URL it was fetched from
AliasActor == "Z"

InboxOf(a) == IF a = "X" THEN "X/inbox" ELSE IF a = "Y" THEN "Y/inbox" ELSE ""

SharedInbox == "shared/inbox"

ActivityIDs == {"a1", "a2"}

\* the polymorphic object field after json.Unmarshal into interface{}
ObjAbsent == [kind |-> "absent", id |-> "", type |-> ""]

ObjRef(ref) == [kind |-> "string", id |-> ref, type |-> ""]

ObjMap(id, typ) == [kind |-> "map", id |-> id, type |-> typ]

\* a request body: ok = FALSE is a body json.Unmarshal rejects; a field the
\* JSON document lacks decodes to the empty string
Body(id, typ, actor, object) ==
    [ok |-> TRUE, id |-> id, type |-> typ, actor |-> actor, object |-> object, target |-> ""]

Malformed == [ok |-> FALSE, id |-> "", type |-> "", actor |-> "", object |-> ObjAbsent, target |-> ""]

Bodies ==
    {Malformed}
    \cup {Body(i, ActivityTypeFollow, a, ObjRef("local")) : i \in ActivityIDs, a \in Actors}
    \cup {Body("a2", ActivityTypeUndo, a, ObjMap("f", ActivityTypeFollow)) : a \in Actors}
    \cup {Body("a2", ActivityTypeUndo, "X", o) :
            o \in {ObjRef("f"), ObjMap("n", ObjectTypeNote), ObjMap("", "")}}
    \cup {Body("a2", ActivityTypeLike, "X", ObjAbsent)}
    \cup {Body("", ActivityTypeFollow, "X", ObjRef("local")),
          Body("a1", "", "X", ObjRef("local")),
          Body("a1", ActivityTypeFollow, "", ObjRef("local"))}

\* the inbox requests: every body to alice's inbox, a Follow and its Undo to carol's
Inbound(userID, body) == [user |-> userID, body |-> body]

Requests ==
    {Inbound("alice", b) : b \in Bodies}
    \cup {Inbound("carol", Body("a1", ActivityTypeFollow, "Y", ObjRef("local"))),
          Inbound("carol", Body("a2", ActivityTypeUndo, "Y", ObjMap("f", ActivityTypeFollow)))}

\* ------------------------------------------------------------------ state

VARIABLES
    calls,       \* HandleInbox calls: position, arguments, result
    activities,  \* the activities table, in created_at order
    followers,   \* the followers table
    outbound     \* HTTP requests handed to the HTTP client

vars == <<calls, activities, followers, outbound>>

NoProfile == [id |-> "", inbox |-> ""]

IdleCall ==
    [pc |-> "idle", user |-> "alice", body |-> Malformed, save |-> "none",
     res |-> "none", profile |-> NoProfile, pred |-> {}]

Follower(u, a, inbox, c) == [user_id |-> u, follower_actor_id |-> a, follower_inbox |-> inbox, by |-> c]

\* the followers table left by earlier Follow activities (by = 0)
Preexisting ==
    {Follower("alice", "Y", InboxOf("Y"), 0),
     Follower("carol", "X", InboxOf("X"), 0)}

Init ==
    /\ calls = [c \in Calls |-> IdleCall]
    /\ activities = <<>>
    /\ followers = Preexisting
    /\ outbound = {}

\* ------------------------------------------------------------------ the repositories

\* HandleInbox: the object field normalised into objectID
ObjectID(body) ==
    IF body.object.kind \in {"string", "map"} THEN body.object.id ELSE ""

\* HandleInbox: the object field normalised into objectType
ObjectType(body) ==
    IF body.object.kind = "map" THEN body.object.type ELSE ""

HasActivity(rows, activityID) ==
    \E i \in 1..Len(rows) : rows[i].activity_id = activityID

ActivityRow(c, activityID, actor, activityType, objectID, objectType, target, rawContent, processed) ==
    [activity_id |-> activityID, actor |-> actor, type |-> activityType,
     object_id |-> objectID, object_type |-> objectType, target |-> target,
     raw_content |-> rawContent, processed |-> processed, call |-> c]

\* SaveActivity without the UNIQUE constraint on activity_id
SaveActivity_NoUnique(rows, c, activityID, actor, activityType, objectID, objectType, target, rawContent, dbUp) ==
    IF ~dbUp THEN [err |-> "dberr", rows |-> rows]
    ELSE [err |-> "",
          rows |-> Append(rows, ActivityRow(c, activityID, actor, activityType,
                                            objectID, objectType, target, rawContent, FALSE))]

\* SaveActivity leaving a row behind when the statement fails
SaveActivity_PartialRow(rows, c, activityID, actor, activityType, objectID, objectType, target, rawContent, dbUp) ==
    IF ~dbUp
    THEN [err |-> "dberr",
          rows |-> Append(rows, ActivityRow(c, activityID, actor, activityType, "", "", "", rawContent, FALSE))]
    ELSE IF HasActivity(rows, activityID) THEN [err |-> "conflict", rows |-> rows]
    ELSE [err |-> "",
          rows |-> Append(rows, ActivityRow(c, activityID, actor, activityType,
                                            objectID, objectType, target, rawContent, FALSE))]

\* SaveActivity inserting processed = true
SaveActivity_Processed(rows, c, activityID, actor, activityType, objectID, objectType, target, rawContent, dbUp) ==
    IF ~dbUp THEN [err |-> "dberr", rows |-> rows]
    ELSE IF HasActivity(rows, activityID) THEN [err |-> "conflict", rows |-> rows]
    ELSE [err |-> "",
          rows |-> Append(rows, ActivityRow(c, activityID, actor, activityType,
                                            objectID, objectType, target, rawContent, TRUE))]

\* GetUserInboxActivities: the raw content of the rows whose target column is
\* the user's actor_id, newest first
RECURSIVE GetUserInboxActivities(_, _)
GetUserInboxActivities(rows, userID) ==
    IF rows = <<>> THEN <<>>
    ELSE LET rest == GetUserInboxActivities(SubSeq(rows, 1, Len(rows) - 1), userID)
             last == rows[Len(rows)]
         IN IF last.target = UserActorID(userID) THEN <<last.raw_content>> \o rest ELSE rest

\* SaveActivity as INSERT ... ON CONFLICT (activity_id) DO UPDATE: a duplicate id
\* overwrites the stored row
SaveActivity_Upsert(rows, c, activityID, actor, activityType, objectID, objectType, target, rawContent, dbUp) ==
    IF ~dbUp THEN [err |-> "dberr", rows |-> rows]
    ELSE IF HasActivity(rows, activityID)
    THEN [err |-> "conflict",
          rows |-> [i \in 1..Len(rows) |->
                       IF rows[i].activity_id = activityID
                       THEN ActivityRow(rows[i].call, activityID, actor, activityType, objectID,
                                        objectType, target, rawContent, rows[i].processed)
                       ELSE rows[i]]]
    ELSE [err |-> "",
          rows |-> Append(rows, ActivityRow(c, activityID, actor, activityType,
                                            objectID, objectType, target, rawContent, FALSE))]

\* SaveActivity as INSERT ... ON CONFLICT (activity_id) DO NOTHING: a duplicate
\* id is no error
SaveActivity_IgnoreConflict(rows, c, activityID, actor, activityType, objectID, objectType, target, rawContent, dbUp) ==
    IF ~dbUp THEN [err |-> "dberr", rows |-> rows]
    ELSE IF HasActivity(rows, activityID) THEN [err |-> "", rows |-> rows]
    ELSE [err |-> "",
          rows |-> Append(rows, ActivityRow(c, activityID, actor, activityType,
                                            objectID, objectType, target, rawContent, FALSE))]

\* SaveActivity: one INSERT with processed = false; the statement fails when the
\* database is unavailable (dbUp = FALSE) or activity_id is already present
\* (UNIQUE), and then inserts nothing
SaveActivity(rows, c, activityID, actor, activityType, objectID, objectType, target, rawContent, dbUp) ==
    IF ~dbUp THEN [err |-> "dberr", rows |-> rows]
    ELSE IF HasActivity(rows, activityID) THEN [err |-> "conflict", rows |-> rows]
    ELSE [err |-> "",
          rows |-> Append(rows, ActivityRow(c, activityID, actor, activityType,
                                            objectID, objectType, target, rawContent, FALSE))]

\* GetUnprocessedActivities: the first limit rows with processed = false in
\* created_at order, each decoded from its raw content
RECURSIVE Unprocessed(_)
Unprocessed(rows) ==
    IF rows = <<>> THEN <<>>
    ELSE IF Head(rows).processed THEN Unprocessed(Tail(rows))
         ELSE <<Head(rows)>> \o Unprocessed(Tail(rows))

\* GetUnprocessedActivities with ORDER BY created_at DESC
GetUnprocessedActivities_Desc(rows, limit) ==
    LET un == Unprocessed(rows)
        n == IF Len(un) < limit THEN Len(un) ELSE limit
    IN [i \in 1..n |-> un[Len(un) + 1 - i].raw_content]

GetUnprocessedActivities(rows, limit) ==
    LET un == Unprocessed(rows)
        n == IF Len(un) < limit THEN Len(un) ELSE limit
    IN [i \in 1..n |-> un[i].raw_content]

\* MarkActivityAsProcessed as UPDATE ... SET processed = NOT processed
MarkActivityAsProcessed_Toggle(rows, activityID) ==
    [i \in 1..Len(rows) |->
        IF rows[i].activity_id = activityID
        THEN [rows[i] EXCEPT !.processed = ~rows[i].processed] ELSE rows[i]]

\* MarkActivityAsProcessed: UPDATE ... SET processed = true WHERE activity_id = $1
MarkActivityAsProcessed(rows, activityID) ==
    [i \in 1..Len(rows) |->
        IF rows[i].activity_id = activityID THEN [rows[i] EXCEPT !.processed = TRUE] ELSE rows[i]]

\* AddFollower as a plain INSERT on a table without the unique constraint
AddFollower_NoConflict(fs, userID, followerActorID, followerInbox, c, dbUp) ==
    IF ~dbUp THEN [err |-> TRUE, rows |-> fs]
    ELSE [err |-> FALSE, rows |-> fs \cup {Follower(userID, followerActorID, followerInbox, c)}]

\* AddFollower as a plain INSERT: the unique constraint fails the second insert
AddFollower_ErrorOnConflict(fs, userID, followerActorID, followerInbox, c, dbUp) ==
    IF ~dbUp THEN [err |-> TRUE, rows |-> fs]
    ELSE IF \E e \in fs : e.user_id = userID /\ e.follower_actor_id = followerActorID
    THEN [err |-> TRUE, rows |-> fs]
    ELSE [err |-> FALSE, rows |-> fs \cup {Follower(userID, followerActorID, followerInbox, c)}]

\* AddFollower: INSERT ... ON CONFLICT (user_id, follower_actor_id) DO NOTHING;
\* the only error is the statement's (dbUp = FALSE)
AddFollower(fs, userID, followerActorID, followerInbox, c, dbUp) ==
    IF ~dbUp THEN [err |-> TRUE, rows |-> fs]
    ELSE IF \E e \in fs : e.user_id = userID /\ e.follower_actor_id = followerActorID
    THEN [err |-> FALSE, rows |-> fs]
    ELSE [err |-> FALSE, rows |-> fs \cup {Follower(userID, followerActorID, followerInbox, c)}]

\* RemoveFollower with WHERE user_id = $1 only
RemoveFollower_ByUser(fs, userID, followerActorID, dbUp) ==
    IF ~dbUp THEN [err |-> TRUE, rows |-> fs]
    ELSE [err |-> FALSE, rows |-> {e \in fs : e.user_id # userID}]

\* RemoveFollower reporting an error when the DELETE affected no row
RemoveFollower_ErrorIfMissing(fs, userID, followerActorID, dbUp) ==
    IF ~dbUp THEN [err |-> TRUE, rows |-> fs]
    ELSE IF ~\E e \in fs : e.user_id = userID /\ e.follower_actor_id = followerActorID
    THEN [err |-> TRUE, rows |-> fs]
    ELSE [err |-> FALSE,
          rows |-> {e \in fs : ~(e.user_id = userID /\ e.follower_actor_id = followerActorID)}]

\* RemoveFollower: DELETE ... WHERE user_id = $1 AND follower_actor_id = $2;
\* the only error is the statement's (dbUp = FALSE)
RemoveFollower(fs, userID, followerActorID, dbUp) ==
    IF ~dbUp THEN [err |-> TRUE, rows |-> fs]
    ELSE [err |-> FALSE,
          rows |-> {e \in fs : ~(e.user_id = userID /\ e.follower_actor_id = followerActorID)}]

\* ------------------------------------------------------------------ the client

\* what the remote server answers to the profile GET: status 0 is a transport
\* error; the document may carry another id (an alias) or another inbox
Reply(status, decodable, id, inbox) ==
    [status |-> status, decodable |-> decodable, id |-> id, inbox |-> inbox]

FetchReplies(actorURL) ==
    IF actorURL \notin Actors THEN {Reply(0, FALSE, "", "")}
    ELSE {Reply(0, FALSE, "", ""),
          Reply(404, FALSE, "", ""),
          Reply(200, FALSE, "", ""),
          Reply(201, TRUE, actorURL, InboxOf(actorURL)),
          Reply(200, TRUE, actorURL, InboxOf(actorURL)),
          IF actorURL = "X"
          THEN Reply(200, TRUE, AliasActor, InboxOf(actorURL))
          ELSE Reply(200, TRUE, actorURL, SharedInbox)}

\* FetchActorPublicInformation: error on a transport error, a status other
\* than 200 or an undecodable body
FetchActorPublicInformation(reply) ==
    IF reply.status = 0 \/ reply.status # 200 \/ ~reply.decodable
    THEN [err |-> TRUE, person |-> NoProfile]
    ELSE [err |-> FALSE, person |-> [id |-> reply.id, inbox |-> reply.inbox]]

\* what the remote inbox answers to the POST; 0 is a transport error
NetOutcomes == {0, 199, 200, 299, 300, 301, 500}

\* signRequest: fails when the PEM block or the key does not parse
signRequest(privateKey) == privateKey = "valid-pem"

\* SendActivityToTargetInbox taking every status below 400 for a delivery
SendActivityToTargetInbox_Accept3xx(privateKey, status) ==
    IF privateKey # "" /\ ~signRequest(privateKey)
    THEN [err |-> TRUE, why |-> "sign", sent |-> FALSE, signed |-> FALSE]
    ELSE [err |-> (status = 0 \/ status < 200 \/ status >= 400),
          why |-> IF status = 0 THEN "send" ELSE IF status < 200 \/ status >= 400 THEN "status" ELSE "",
          sent |-> TRUE, signed |-> privateKey # ""]

\* SendActivityToTargetInbox refusing to deliver for a sender without a key
SendActivityToTargetInbox_RequireKey(privateKey, status) ==
    IF privateKey = "" \/ ~signRequest(privateKey)
    THEN [err |-> TRUE, why |-> "sign", sent |-> FALSE, signed |-> FALSE]
    ELSE [err |-> (status = 0 \/ status < 200 \/ status >= 300),
          why |-> IF status = 0 THEN "send" ELSE IF status < 200 \/ status >= 300 THEN "status" ELSE "",
          sent |-> TRUE, signed |-> TRUE]

\* SendActivityToTargetInbox delivering unsigned when signRequest fails
SendActivityToTargetInbox_SwallowSignError(privateKey, status) ==
    [err |-> (status = 0 \/ status < 200 \/ status >= 300),
     why |-> IF status = 0 THEN "send" ELSE IF status < 200 \/ status >= 300 THEN "status" ELSE "",
     sent |-> TRUE, signed |-> privateKey # "" /\ signRequest(privateKey)]

\* SendActivityToTargetInbox: err, which step returned it (why: "sign" for
\* signRequest, "send" for httpClient.Do, "status" for the status check),
\* whether the request reached the HTTP client (sent) and whether it carried a
\* Signature header (signed)
SendActivityToTargetInbox(privateKey, status) ==
    IF privateKey # "" /\ ~signRequest(privateKey)
    THEN [err |-> TRUE, why |-> "sign", sent |-> FALSE, signed |-> FALSE]
    ELSE [err |-> (status = 0 \/ status < 200 \/ status >= 300),
          why |-> IF status = 0 THEN "send" ELSE IF status < 200 \/ status >= 300 THEN "status" ELSE "",
          sent |-> TRUE, signed |-> privateKey # ""]

NoActivity == [type |-> "", actor |-> "", to |-> "",
               object |-> [id |-> "", type |-> "", actor |-> "", object |-> ""]]

\* handleFollowActivity: the Accept activity
AcceptActivity(userActorID, followerActorID) ==
    [type |-> ActivityTypeAccept, actor |-> userActorID, to |-> followerActorID,
     object |-> [id |-> followerActorID, type |-> ActivityTypeFollow,
                 actor |-> followerActorID, object |-> userActorID]]

Request(c, method, url, signed, activity) ==
    [call |-> c, method |-> method, url |-> url, signed |-> signed, activity |-> activity]

\* ------------------------------------------------------------------ HandleInbox

\* the switch with the Follow handler as its default case
Dispatch_DefaultFollow(activityType, objectType) ==
    IF activityType = ActivityTypeUndo /\ objectType = ActivityTypeFollow THEN "undo"
    ELSE "fetch"

\* the switch removing the follower for every Undo
Dispatch_UndoAny(activityType, objectType) ==
    IF activityType = ActivityTypeFollow THEN "fetch"
    ELSE IF activityType = ActivityTypeUndo THEN "undo"
    ELSE "done"

\* HandleInbox: the switch on the activity type after the save
Dispatch(activityType, objectType) ==
    IF activityType = ActivityTypeFollow THEN "fetch"
    ELSE IF activityType = ActivityTypeUndo /\ objectType = ActivityTypeFollow THEN "undo"
    ELSE "done"

Finish(call, res) == [call EXCEPT !.pc = "done", !.res = res]

\* HandleInbox up to and including SaveActivity: decode the body, extract the
\* fields, insert the row, choose the handler
HandleInbox(c) ==
    /\ calls[c].pc = "idle"
    /\ c > 1 => calls[c - 1].pc # "idle"
    /\ \E req \in Requests, dbUp \in BOOLEAN :
        LET userID == req.user
            body == req.body
            call == [calls[c] EXCEPT !.user = userID, !.body = body,
                                     !.pred = {d \in Calls : calls[d].pc = "done"}]
            saved == SaveActivity(activities, c, body.id, body.actor, body.type,
                                  ObjectID(body), ObjectType(body), body.target, body, dbUp)
            next == Dispatch(body.type, ObjectType(body))
        IN IF ~body.ok
           THEN /\ calls' = [calls EXCEPT ![c] = Finish(call, "err_parse")]
                /\ UNCHANGED activities
           ELSE /\ activities' = saved.rows
                /\ calls' = [calls EXCEPT ![c] =
                     IF saved.err # ""
                     THEN Finish([call EXCEPT !.save = saved.err], "err_save")
                     ELSE IF next = "done"
                          THEN Finish([call EXCEPT !.save = "ok"], "ok")
                          ELSE [call EXCEPT !.save = "ok", !.pc = next]]
    /\ UNCHANGED <<followers, outbound>>

\* handleFollowActivity: fetch the follower's profile
FollowFetch(c) ==
    /\ calls[c].pc = "fetch"
    /\ \E reply \in FetchReplies(calls[c].body.actor) :
        LET fetched == FetchActorPublicInformation(reply)
        IN calls' = [calls EXCEPT ![c] =
              IF fetched.err THEN Finish(@, "err_fetch")
              ELSE [@ EXCEPT !.pc = "add", !.profile = fetched.person]]
    /\ outbound' = outbound \cup {Request(c, "GET", calls[c].body.actor, FALSE, NoActivity)}
    /\ UNCHANGED <<activities, followers>>

\* handleFollowActivity: add the follower
FollowAdd(c) ==
    /\ calls[c].pc = "add"
    /\ \E dbUp \in BOOLEAN :
        LET added == AddFollower(followers, calls[c].user, calls[c].profile.id,
                                 calls[c].profile.inbox, c, dbUp)
        IN /\ followers' = added.rows
           /\ calls' = [calls EXCEPT ![c] =
                IF added.err THEN Finish(@, "err_add") ELSE [@ EXCEPT !.pc = "accept"]]
    /\ UNCHANGED <<activities, outbound>>

\* handleFollowActivity deleting the follower again when the Accept is not
\* delivered
FollowAccept_Rollback(c) ==
    /\ calls[c].pc = "accept"
    /\ \E dbUp \in BOOLEAN, status \in NetOutcomes :
        LET userID == calls[c].user
            accept == AcceptActivity(UserActorID(userID), calls[c].body.actor)
            sending == SendActivityToTargetInbox(UserPrivateKey(userID), status)
        IN IF ~dbUp
           THEN /\ calls' = [calls EXCEPT ![c] = Finish(@, "err_getuser")]
                /\ UNCHANGED <<outbound, followers>>
           ELSE /\ calls' = [calls EXCEPT ![c] =
                     Finish(@, IF sending.err THEN "err_send" ELSE "ok")]
                /\ outbound' =
                     IF sending.sent
                     THEN outbound \cup {Request(c, "POST", calls[c].profile.inbox,
                                                   sending.signed, accept)}
                     ELSE outbound
                /\ followers' =
                     IF sending.err
                     THEN RemoveFollower(followers, userID, calls[c].profile.id, TRUE).rows
                     ELSE followers
    /\ UNCHANGED activities

\* handleFollowActivity: load the user, build the Accept and send it to the
\* inbox of the fetched profile
FollowAccept(c) ==
    /\ calls[c].pc = "accept"
    /\ \E dbUp \in BOOLEAN, status \in NetOutcomes :
        LET userID == calls[c].user
            accept == AcceptActivity(UserActorID(userID), calls[c].body.actor)
            sending == SendActivityToTargetInbox(UserPrivateKey(userID), status)
        IN IF ~dbUp
           THEN /\ calls' = [calls EXCEPT ![c] = Finish(@, "err_getuser")]
                /\ UNCHANGED outbound
           ELSE /\ calls' = [calls EXCEPT ![c] =
                     Finish(@, IF sending.err THEN "err_send" ELSE "ok")]
                /\ outbound' =
                     IF sending.sent
                     THEN outbound \cup {Request(c, "POST", calls[c].profile.inbox,
                                                   sending.signed, accept)}
                     ELSE outbound
    /\ UNCHANGED <<activities, followers>>

\* handleUndoFollowActivity
UndoFollow(c) ==
    /\ calls[c].pc = "undo"
    /\ \E dbUp \in BOOLEAN :
        LET removed == RemoveFollower(followers, calls[c].user, calls[c].body.actor, dbUp)
        IN /\ followers' = removed.rows
           /\ calls' = [calls EXCEPT ![c] =
                Finish(@, IF removed.err THEN "err_remove" ELSE "ok")]
    /\ UNCHANGED <<activities, outbound>>

Next ==
    \E c \in Calls :
        \/ HandleInbox(c)
        \/ FollowFetch(c)
        \/ FollowAdd(c)
        \/ FollowAccept(c)
        \/ UndoFollow(c)

Spec == Init /\ [][Next]_vars

\* ------------------------------------------------- the repository used directly

\* the largest LIMIT a reader of the unprocessed activities asks for
MaxLimit == 2

Limits == 0..MaxLimit

\* a consumer of the activities table marks an activity as processed; the
\* UPDATE can fail as a statement, and matches no row when the id is not stored
MarkProcessed(activityID) ==
    /\ \E dbUp \in BOOLEAN :
        activities' = IF dbUp THEN MarkActivityAsProcessed(activities, activityID)
                      ELSE activities
    /\ UNCHANGED <<calls, followers, outbound>>

NextRepo ==
    \/ Next
    \/ \E activityID \in ActivityIDs : MarkProcessed(activityID)

SpecRepo == Init /\ [][NextRepo]_vars

\* ------------------------------------------------- outbound delivery on its own

ActivityTypeCreate == "Create"

\* the senders of check-in activities: the users above and one whose stored
\* private key does not parse
Senders == Users \cup {"dave"}

\* the check-in handler's recipientInbox: the recipient's actor id + "/inbox"
RecipientInbox(u) ==
    IF u = "alice" THEN "https://host/users/alice/inbox" ELSE "https://host/users/carol/inbox"

\* the check-in handler's Create activity wrapping the Note
CreateActivity(senderActorID, recipientActorID) ==
    [type |-> ActivityTypeCreate, actor |-> senderActorID, to |-> recipientActorID,
     object |-> [id |-> "checkin", type |-> ObjectTypeNote, actor |-> senderActorID, object |-> ""]]

IdleSend ==
    [pc |-> "idle", user |-> "", inbox |-> "", sent |-> FALSE, status |-> 0, res |-> "", why |-> ""]

InitClient ==
    /\ calls = [c \in Calls |-> IdleSend]
    /\ activities = <<>>
    /\ followers = Preexisting
    /\ outbound = {}

\* SendActivityToInbox: one call of SendActivityToTargetInbox for a sender and
\* a target inbox; status is what the HTTP client returns for the POST
SendActivityToInbox(c) ==
    /\ calls[c].pc = "idle"
    /\ \E sender \in Senders, recipient \in Users, status \in NetOutcomes :
        LET targetInbox == RecipientInbox(recipient)
            activity == CreateActivity(UserActorID(sender), UserActorID(recipient))
            sending == SendActivityToTargetInbox(UserPrivateKey(sender), status)
        IN /\ calls' = [calls EXCEPT ![c] =
                [pc |-> "done", user |-> sender, inbox |-> targetInbox,
                 sent |-> sending.sent,
                 status |-> IF sending.sent THEN status ELSE 0,
                 res |-> IF sending.err THEN "err_send" ELSE "ok",
                 why |-> sending.why]]
           /\ outbound' =
                IF sending.sent
                THEN outbound \cup {Request(c, "POST", targetInbox, sending.signed, activity)}
                ELSE outbound
    /\ UNCHANGED <<activities, followers>>

NextClient == \E c \in Calls : SendActivityToInbox(c)

SpecClient == InitClient /\ [][NextClient]_vars

\* ------------------------------------------------------- signRequest on its own

\* Strings that signRequest formats are sequences of pieces of text; no piece
\* is a concatenation of other pieces, so equal sequences are equal strings.
SignMethods == {<<"POST">>, <<"GET">>}

\* req.URL.Path is the decoded path: it can hold spaces and line breaks
SignPaths ==
    {<<"/a">>, <<"/b">>, <<"/a", " ", "/b">>,
     <<"/a", "\nhost: ", "h2">>,
     <<"/a", "\nhost: ", "h2", "\ndate: ", "d2">>}

\* req.URL.Host
SignHosts == {<<"h1">>, <<"h2">>}

\* time.Now().UTC().Format(http.TimeFormat)
SignDates == {<<"d1">>, <<"d2">>}

\* signString without the host line
signString_NoHost(method, path, host, date) ==
    <<"(request-target): ">> \o method \o <<" ">> \o path \o <<"\ndate: ">> \o date

\* signRequest: fmt.Sprintf("(request-target): %s %s\nhost: %s\ndate: %s", ...)
signString(method, path, host, date) ==
    <<"(request-target): ">> \o method \o <<" ">> \o path
        \o <<"\nhost: ">> \o host \o <<"\ndate: ">> \o date

\* rsa.SignPKCS1v15 over the SHA-256 digest of the string: a signature is good
\* for the key that made it and for the one string it was made over
SignPKCS1v15(privateKey, signedString) == [key |-> privateKey, over |-> signedString]

\* what a receiver checks: the signature against the sender's key and the
\* signing string rebuilt from the request it received
Verifies(signature, privateKey, method, path, host, date) ==
    /\ signature.key = privateKey
    /\ signature.over = signString(method, path, host, date)

NoRequest == [method |-> <<>>, path |-> <<>>, host |-> <<>>, date |-> <<>>,
              keyId |-> "", signature |-> [key |-> "", over |-> <<>>]]

IdleSign == [pc |-> "idle", user |-> "", res |-> "", req |-> NoRequest]

InitSign ==
    /\ calls = [c \in Calls |-> IdleSign]
    /\ activities = <<>>
    /\ followers = Preexisting
    /\ outbound = {}

\* signRequest(req, user) for a user with a non-empty key: parse the key, set
\* the Date header, sign the string built from method, path, host and that
\* date, set the Signature header; req is the request as it is then sent
signRequestCall(c) ==
    /\ calls[c].pc = "idle"
    /\ \E user \in {u \in Senders : UserPrivateKey(u) # ""},
          method \in SignMethods, path \in SignPaths, host \in SignHosts, now \in SignDates :
        calls' = [calls EXCEPT ![c] =
            IF ~signRequest(UserPrivateKey(user))
            THEN [pc |-> "done", user |-> user, res |-> "err_sign", req |-> NoRequest]
            ELSE [pc |-> "done", user |-> user, res |-> "ok",
                  req |-> [method |-> method, path |-> path, host |-> host, date |-> now,
                           keyId |-> UserActorID(user),
                           signature |-> SignPKCS1v15(UserPrivateKey(user),
                                             signString(method, path, host, now))]]]
    /\ UNCHANGED <<activities, followers, outbound>>

NextSign == \E c \in Calls : signRequestCall(c)

SpecSign == InitSign /\ [][NextSign]_vars

\* ------------------------------------------------------ the GET requests alone

\* what a remote server answers to the GET of an actor document
ProfileReplies ==
    {Reply(0, FALSE, "", "")}
    \cup {Reply(status, FALSE, "", "") : status \in {200, 201, 404}}
    \cup {Reply(status, TRUE, "X", inbox) :
            status \in {199, 200, 201, 204, 299, 300, 404}, inbox \in {InboxOf("X"), ""}}

\* a value under a key of the decoded followers document
Absent == [kind |-> "absent", elems |-> <<>>]

NotAList == [kind |-> "other", elems |-> <<>>]

List(elems) == [kind |-> "list", elems |-> elems]

\* an element of a list: a JSON string, or something else
Str(uri) == [isString |-> TRUE, value |-> uri]

NotStr == [isString |-> FALSE, value |-> ""]

Collection(item, items, orderedItems) ==
    [item |-> item, items |-> items, orderedItems |-> orderedItems]

Collections ==
    {Collection(Absent, Absent, Absent),
     Collection(Absent, List(<<Str("X"), Str("Y")>>), Absent),
     Collection(Absent, Absent, List(<<Str("X"), Str("Y")>>)),
     Collection(List(<<Str("Y")>>), Absent, Absent),
     Collection(Absent, List(<<Str("X"), Str("Y")>>), List(<<Str("Y")>>)),
     Collection(List(<<Str("Y")>>), List(<<Str("X")>>), Absent),
     Collection(Absent, NotAList, Absent),
     Collection(Absent, Absent, NotAList),
     Collection(Absent, Absent, List(<<Str("X"), NotStr>>)),
     Collection(Absent, List(<<>>), Absent)}

CollectionReply(status, decodable, doc) ==
    [status |-> status, decodable |-> decodable, doc |-> doc]

\* what a remote server answers to the GET of a followers collection
CollectionReplies ==
    {CollectionReply(0, FALSE, Collection(Absent, Absent, Absent)),
     CollectionReply(200, FALSE, Collection(Absent, Absent, Absent)),
     CollectionReply(404, TRUE, Collection(Absent, Absent, List(<<Str("X")>>)))}
    \cup {CollectionReply(status, TRUE, doc) : status \in {200, 201}, doc \in Collections}

\* the loop over a list: the elements that are strings, in order
RECURSIVE StringsOf(_)
StringsOf(elems) ==
    IF elems = <<>> THEN <<>>
    ELSE IF Head(elems).isString THEN <<Head(elems).value>> \o StringsOf(Tail(elems))
         ELSE StringsOf(Tail(elems))

\* GetActorFollowers: error on a transport error, a status other than 200 or
\* an undecodable body; then the list under "item", else the list under
\* "orderedItems", else an error
GetActorFollowers(reply) ==
    IF reply.status = 0 \/ reply.status # 200 \/ ~reply.decodable
    THEN [err |-> TRUE, followers |-> <<>>]
    ELSE IF reply.doc.item.kind = "list"
    THEN [err |-> FALSE, followers |-> StringsOf(reply.doc.item.elems)]
    ELSE IF reply.doc.orderedItems.kind = "list"
    THEN [err |-> FALSE, followers |-> StringsOf(reply.doc.orderedItems.elems)]
    ELSE [err |-> TRUE, followers |-> <<>>]

IdleGet == [pc |-> "idle", op |-> "", reply |-> Reply(0, FALSE, "", ""),
            err |-> FALSE, person |-> NoProfile, followers |-> <<>>]

InitGet ==
    /\ calls = [c \in Calls |-> IdleGet]
    /\ activities = <<>>
    /\ followers = Preexisting
    /\ outbound = {}

\* one call of FetchActorPublicInformation
FetchActor(c) ==
    /\ calls[c].pc = "idle"
    /\ \E reply \in ProfileReplies :
        LET fetched == FetchActorPublicInformation(reply)
        IN calls' = [calls EXCEPT ![c] =
                [pc |-> "done", op |-> "fetch", reply |-> reply, err |-> fetched.err,
                 person |-> fetched.person, followers |-> <<>>]]
    /\ UNCHANGED <<activities, followers, outbound>>

\* one call of GetActorFollowers
GetFollowers(c) ==
    /\ calls[c].pc = "idle"
    /\ \E reply \in CollectionReplies :
        LET got == GetActorFollowers(reply)
        IN calls' = [calls EXCEPT ![c] =
                [pc |-> "done", op |-> "followers", reply |-> reply, err |-> got.err,
                 person |-> NoProfile, followers |-> got.followers]]
    /\ UNCHANGED <<activities, followers, outbound>>

NextGet ==
    \E c \in Calls :
        \/ FetchActor(c)
        \/ GetFollowers(c)

SpecGet == InitGet /\ [][NextGet]_vars

\* ------------------------------------------------------------ the actor document

\* usernames, as sequences of pieces of text: plain, with a space, with a
\* slash, with a percent sign
Usernames == {<<"alice">>, <<"a", " ", "b">>, <<"a", "/", "b">>, <<"50", "%">>}

ServerHosts == {<<"host">>, <<"other">>}

\* url.PathEscape, piece by piece
RECURSIVE PathEscape(_)
PathEscape(str) ==
    IF str = <<>> THEN <<>>
    ELSE <<CASE Head(str) = " " -> "%20"
             [] Head(str) = "/" -> "%2F"
             [] Head(str) = "%" -> "%25"
             [] OTHER -> Head(str)>> \o PathEscape(Tail(str))

\* GenerateActorID: "http://%s/users/%s" with the escaped username
GenerateActorID(serverHost, username) ==
    <<"http://">> \o serverHost \o <<"/users/">> \o PathEscape(username)

NoKey == [id |-> <<>>, owner |-> <<>>, publicKeyPem |-> ""]

\* GetActor: the Person document built for a user
GetActor(username, publicKey, serverHost) ==
    LET actorID == <<"http://">> \o serverHost \o <<"/user/">> \o username
    IN [id |-> actorID,
        preferredUsername |-> username,
        inbox |-> actorID \o <<"/inbox">>,
        outbox |-> actorID \o <<"/outbox">>,
        following |-> actorID \o <<"/following">>,
        followers |-> actorID \o <<"/followers">>,
        liked |-> actorID \o <<"/linked">>,
        url |-> actorID,
        publicKey |-> IF publicKey # ""
                      THEN [id |-> actorID \o <<"#main-key">>, owner |-> actorID,
                            publicKeyPem |-> publicKey]
                      ELSE NoKey]

IdleActor == [pc |-> "idle", username |-> <<>>, actor_id |-> <<>>,
              doc |-> GetActor(<<>>, "", <<>>)]

InitActor ==
    /\ calls = [c \in Calls |-> IdleActor]
    /\ activities = <<>>
    /\ followers = Preexisting
    /\ outbound = {}

\* GetActor for a user whose actor_id the registration set with GenerateActorID
GetActorCall(c) ==
    /\ calls[c].pc = "idle"
    /\ \E username \in Usernames, serverHost \in ServerHosts, publicKey \in {"", "public-pem"} :
        calls' = [calls EXCEPT ![c] =
            [pc |-> "done", username |-> username,
             actor_id |-> GenerateActorID(serverHost, username),
             doc |-> GetActor(username, publicKey, serverHost)]]
    /\ UNCHANGED <<activities, followers, outbound>>

NextActor == \E c \in Calls : GetActorCall(c)

SpecActor == InitActor /\ [][NextActor]_vars

\* ------------------------------------------------------------------ properties

Done(c) == calls[c].pc = "done"

IsFollow(c) == calls[c].pc # "idle" /\ calls[c].body.ok /\ calls[c].body.type = ActivityTypeFollow

IsUndoFollow(c) ==
    /\ calls[c].pc # "idle"
    /\ calls[c].body.ok
    /\ calls[c].body.type = ActivityTypeUndo
    /\ ObjectType(calls[c].body) = ActivityTypeFollow

RowsWithID(activityID) == {i \in 1..Len(activities) : activities[i].activity_id = activityID}

RowsOf(c) == {i \in 1..Len(activities) : activities[i].call = c}

Edges(userID, actorID) ==
    {e \in followers : e.user_id = userID /\ e.follower_actor_id = actorID}

EdgesBy(c) == {e \in followers : e.by = c}

RequestsOf(c) == {r \in outbound : r.call = c}

PostsOf(c) == {r \in outbound : r.call = c /\ r.method = "POST"}

\* the call got as far as a successful AddFollower
Inserted(c) == IsFollow(c) /\ (calls[c].pc = "accept" \/ calls[c].res \in {"ok", "err_getuser", "err_send"})

\* another call than c and d undoes the follow of actorID for userID
UndoneByOther(c, d, userID, actorID) ==
    \E e \in Calls \ {c, d} :
        IsUndoFollow(e) /\ calls[e].user = userID /\ calls[e].body.actor = actorID

SameSubmission(c, d) ==
    /\ c # d
    /\ calls[c].pc # "idle"
    /\ calls[d].pc # "idle"
    /\ calls[c].user = calls[d].user
    /\ calls[c].body = calls[d].body

\* C1: the same Follow (same id) submitted twice to the same inbox, the second
\* call after the first has returned and the first having fetched the profile
\* and inserted the follower: exactly one activities row has that activity_id,
\* exactly one followers row exists for (user, follower), and the second call
\* has inserted no row, sent nothing and added no follower.
C1_SameFollowTwice ==
    \A c, d \in Calls :
        (/\ SameSubmission(c, d)
         /\ c \in calls[d].pred
         /\ Inserted(c)
         /\ Done(d)
         /\ ~UndoneByOther(c, d, calls[c].user, calls[c].profile.id))
        => /\ Cardinality(RowsWithID(calls[c].body.id)) = 1
           /\ Cardinality(Edges(calls[c].user, calls[c].profile.id)) = 1
           /\ RowsOf(d) = {}
           /\ RequestsOf(d) = {}
           /\ EdgesBy(d) = {}

C1_Witness ==
    \E c, d \in Calls :
        /\ SameSubmission(c, d)
        /\ c \in calls[d].pred
        /\ IsFollow(c)
        /\ calls[c].res = "ok"
        /\ calls[d].res = "err_save"
        /\ calls[d].save = "conflict"
        /\ EdgesBy(c) # {}

\* the calls that carried activity id activityID
CallsWithID(activityID) ==
    {d \in Calls : calls[d].pc # "idle" /\ calls[d].body.ok /\ calls[d].body.id = activityID}

\* C2: of the HandleInbox calls carrying the same activity id, whatever their
\* interleaving, exactly one has its SaveActivity succeed (as soon as one of
\* them got an answer other than a database failure), exactly one activities
\* row has that id, a call whose save did not succeed never dispatches (no
\* request, no follower), so at most one Accept is sent for the id and no
\* (user, follower) pair has two edges.
C2_ConcurrentSameID ==
    /\ \A c \in Calls :
          calls[c].save # "ok"
          => /\ calls[c].pc \in {"idle", "done"}
             /\ RowsOf(c) = {}
             /\ RequestsOf(c) = {}
             /\ EdgesBy(c) = {}
    /\ \A userID \in Users, actorID \in Actors \cup {AliasActor} :
          Cardinality(Edges(userID, actorID)) <= 1
    /\ \A c \in Calls :
          (calls[c].pc # "idle" /\ calls[c].body.ok)
          => LET same == CallsWithID(calls[c].body.id)
                 savers == {d \in same : calls[d].save = "ok"}
             IN /\ Cardinality(savers) <= 1
                /\ Cardinality(RowsWithID(calls[c].body.id)) = Cardinality(savers)
                /\ Cardinality(UNION {PostsOf(d) : d \in same}) <= 1
                /\ calls[c].save # "dberr" => Cardinality(savers) = 1

\* two Follow calls with one id overlapped: the second was saved-rejected while
\* the first was still fetching, and the first went on to send its Accept
C2_Witness ==
    \E c, d \in Calls :
        /\ c # d
        /\ IsFollow(c) /\ IsFollow(d)
        /\ calls[c].body.id = calls[d].body.id
        /\ Done(c) /\ Done(d)
        /\ c \notin calls[d].pred
        /\ d \notin calls[c].pred
        /\ calls[c].save = "ok"
        /\ calls[d].save = "conflict"
        /\ Cardinality(PostsOf(c)) = 1

\* C3: an inbound Follow from actor X to a local user that was handled
\* successfully leaves the edge (user, X, inbox of the fetched profile) and has
\* POSTed exactly one Accept, to that inbox, with object.actor = X and
\* object.object = the user's actor id.
C3_FollowAccept ==
    \A c \in Calls :
        (IsFollow(c) /\ Done(c) /\ calls[c].res = "ok")
        => /\ \E e \in followers :
                 /\ e.user_id = calls[c].user
                 /\ e.follower_actor_id = calls[c].body.actor
                 /\ e.follower_inbox = calls[c].profile.inbox
           /\ Cardinality(PostsOf(c)) = 1
           /\ \A r \in PostsOf(c) :
                 /\ r.url = calls[c].profile.inbox
                 /\ r.activity.type = ActivityTypeAccept
                 /\ r.activity.object.actor = calls[c].body.actor
                 /\ r.activity.object.object = UserActorID(calls[c].user)

\* C4: once a Follow from X to U has inserted an edge, an Undo(Follow) sent by
\* X to U after it and handled successfully leaves no edge that this Follow
\* created, whatever profile document was fetched.
C4_UndoRemovesFollow ==
    \A f, u \in Calls :
        (/\ IsFollow(f)
         /\ IsUndoFollow(u)
         /\ calls[f].user = calls[u].user
         /\ calls[f].body.actor = calls[u].body.actor
         /\ f \in calls[u].pred
         /\ Done(u)
         /\ calls[u].res = "ok")
        => EdgesBy(f) = {}

\* C5: the RemoveFollower of an Undo(Follow) from X to U deletes the edges of
\* the pair (U, X) and nothing else: every other edge, of U and of every other
\* user, is in the table after the step exactly as before it, and none is added.
C5_UndoFrame ==
    [][\A c \in Calls :
          (calls[c].pc = "undo" /\ calls'[c].pc = "done")
          => LET matching == Edges(calls[c].user, calls[c].body.actor)
             IN /\ followers' \subseteq followers
                /\ followers \ followers' \subseteq matching
                /\ calls'[c].res = "ok" => followers' = followers \ matching
                /\ calls'[c].res # "ok" => followers' = followers]_vars

\* an Undo from X removed the edge a Follow had inserted for (alice, X) while
\* the other edges of alice and of carol are still there
C5_Witness ==
    \E f, u \in Calls :
        /\ Inserted(f)
        /\ calls[f].user = "alice"
        /\ calls[f].profile.id = "X"
        /\ IsUndoFollow(u)
        /\ calls[u].user = "alice"
        /\ calls[u].body.actor = "X"
        /\ f \in calls[u].pred
        /\ calls[u].res = "ok"
        /\ Edges("alice", "X") = {}
        /\ followers = Preexisting

\* C6: a call whose SaveActivity succeeded returns no error, whatever became of
\* the profile fetch, the follower insert and the Accept delivery.
C6_AcceptedOnceSaved ==
    \A c \in Calls : (Done(c) /\ calls[c].save = "ok") => calls[c].res = "ok"

\* C7: the row of a call that saved its activity and whose side effect fully
\* succeeded has processed = true, and only such rows have it.
C7_ProcessedOnSuccess ==
    /\ \A c \in Calls :
          (Done(c) /\ calls[c].save = "ok" /\ calls[c].res = "ok")
          => \E i \in RowsOf(c) : activities[i].processed
    /\ \A i \in 1..Len(activities) :
          activities[i].processed
          => Done(activities[i].call) /\ calls[activities[i].call].res = "ok"

\* C8: a Follow that was saved and whose profile fetch or Accept delivery then
\* failed keeps its activities row, with processed = false, and
\* GetUnprocessedActivities (with a limit that covers the table) returns it.
C8_FailedFollowKept ==
    \A c \in Calls :
        (IsFollow(c) /\ Done(c) /\ calls[c].res \in {"err_fetch", "err_send"})
        => /\ \E i \in RowsOf(c) :
                 /\ activities[i].activity_id = calls[c].body.id
                 /\ activities[i].raw_content = calls[c].body
                 /\ ~activities[i].processed
           /\ LET got == GetUnprocessedActivities(activities, Len(activities))
              IN \E k \in 1..Len(got) : got[k] = calls[c].body

\* one Follow failed at the fetch and another at the delivery
C8_Witness ==
    \E c, d \in Calls :
        /\ IsFollow(c) /\ IsFollow(d)
        /\ calls[c].res = "err_fetch"
        /\ calls[d].res = "err_send"
        /\ Cardinality(PostsOf(d)) = 1
        /\ Len(activities) = 2

\* C9: a body that is not well-formed JSON, or that lacks id, type or actor,
\* is rejected with a validation failure before the save: no row, no follower
\* change and no outbound request come from that call.
C9_ValidationBeforeSave ==
    \A c \in Calls :
        (/\ calls[c].pc # "idle"
         /\ \/ ~calls[c].body.ok
            \/ calls[c].body.id = ""
            \/ calls[c].body.type = ""
            \/ calls[c].body.actor = "")
        => /\ Done(c)
           /\ calls[c].res = "err_parse"
           /\ calls[c].save = "none"
           /\ RowsOf(c) = {}
           /\ RequestsOf(c) = {}
           /\ EdgesBy(c) = {}

\* C10: a call whose SaveActivity failed has returned the error, has left no
\* row of its own, has made no request and added no follower; and the step in
\* which it failed changed neither table nor sent anything.
C10_SaveFailure ==
    /\ [](\A c \in Calls :
            calls[c].save \in {"conflict", "dberr"}
            => /\ Done(c)
               /\ calls[c].res = "err_save"
               /\ RowsOf(c) = {}
               /\ RequestsOf(c) = {}
               /\ EdgesBy(c) = {})
    /\ [][\A c \in Calls :
            (calls[c] # calls'[c] /\ calls'[c].save \in {"conflict", "dberr"})
            => /\ activities' = activities
               /\ followers' = followers
               /\ outbound' = outbound]_vars

\* a Follow was rejected for its duplicate id while the call that stored the id
\* went on to add a follower
C10_Witness ==
    \E c, d \in Calls :
        /\ IsFollow(c)
        /\ calls[c].save = "conflict"
        /\ calls[c].res = "err_save"
        /\ calls[d].body.id = calls[c].body.id
        /\ RowsOf(d) # {}
        /\ EdgesBy(d) # {}

\* the body has a type HandleInbox has no handler for
NoHandler(body) ==
    /\ body.ok
    /\ body.type # ActivityTypeFollow
    /\ ~(body.type = ActivityTypeUndo /\ ObjectType(body) = ActivityTypeFollow)

\* C11: an inbound activity of a type without a handler whose save succeeded
\* has exactly one activities row, HandleInbox has returned no error for it,
\* and the call has changed no follower and made no outbound request; its save
\* fails only for a duplicate id or a database failure.
C11_UnknownType ==
    /\ [](\A c \in Calls :
            (calls[c].pc # "idle" /\ NoHandler(calls[c].body))
            => /\ Done(c)
               /\ RequestsOf(c) = {}
               /\ EdgesBy(c) = {}
               /\ calls[c].save = "ok"
                  => /\ calls[c].res = "ok"
                     /\ Cardinality(RowsOf(c)) = 1
                     /\ Cardinality(RowsWithID(calls[c].body.id)) = 1
                     /\ \A i \in RowsOf(c) : activities[i].raw_content = calls[c].body)
    /\ [][\A c \in Calls :
            (calls[c].pc = "idle" /\ calls'[c].pc # "idle" /\ NoHandler(calls'[c].body))
            => /\ followers' = followers
               /\ outbound' = outbound
               /\ calls'[c].save = "conflict" => HasActivity(activities, calls'[c].body.id)
               /\ calls'[c].save = "ok" => Len(activities') = Len(activities) + 1]_vars

\* a Like was stored and answered without error
C11_Witness ==
    \E c \in Calls :
        /\ Done(c)
        /\ calls[c].body.ok
        /\ calls[c].body.type = ActivityTypeLike
        /\ calls[c].res = "ok"
        /\ Cardinality(RowsOf(c)) = 1
        /\ followers = Preexisting
        /\ outbound = {}

\* C12: a HandleInbox call that delivers an activity whose id is already stored
\* adds no row, changes no follower and makes no outbound request: it ends in
\* the step that detects the duplicate.
C12_Redelivery ==
    /\ [](\A c \in Calls :
            calls[c].save = "conflict"
            => Done(c) /\ RowsOf(c) = {} /\ RequestsOf(c) = {} /\ EdgesBy(c) = {})
    /\ [][\A c \in Calls :
            (/\ calls[c].pc = "idle"
             /\ calls'[c].pc # "idle"
             /\ calls'[c].body.ok
             /\ HasActivity(activities, calls'[c].body.id))
            => /\ activities' = activities
               /\ followers' = followers
               /\ outbound' = outbound
               /\ calls'[c].pc = "done"]_vars

\* a Follow was delivered again after its first delivery had been handled
C12_Witness ==
    \E c, d \in Calls :
        /\ SameSubmission(c, d)
        /\ IsFollow(c)
        /\ c \in calls[d].pred
        /\ calls[c].res = "ok"
        /\ calls[d].save = "conflict"
        /\ Len(activities) = 1
        /\ RequestsOf(d) = {}

\* C13: in every reachable state the followers table holds at most one edge
\* per (user_id, follower_actor_id) pair.
C13_OneEdgePerPair ==
    \A e1, e2 \in followers :
        (e1.user_id = e2.user_id /\ e1.follower_actor_id = e2.follower_actor_id) => e1 = e2

\* two overlapping Follow calls of one actor to one user both ran AddFollower
C13_Witness ==
    \E c, d \in Calls :
        /\ c # d
        /\ Inserted(c) /\ Inserted(d)
        /\ calls[c].user = calls[d].user
        /\ calls[c].profile.id = calls[d].profile.id
        /\ c \notin calls[d].pred
        /\ d \notin calls[c].pred
        /\ Cardinality(Edges(calls[c].user, calls[c].profile.id)) = 1

\* the inboxes a fetched profile can name
Inboxes == {InboxOf(a) : a \in Actors} \cup {SharedInbox}

\* C16: AddFollower for a pair that already has an edge returns no error and
\* leaves the followers table as it is; applied twice in a row, the second
\* application (whatever inbox it carries) leaves the table exactly as the
\* first left it; and the step of handleFollowActivity that calls it for such
\* a pair changes no follower.
C16_AddFollowerIdempotent ==
    /\ [](\A c \in Calls :
            calls[c].pc = "add"
            => LET userID == calls[c].user
                   actorID == calls[c].profile.id
                   first == AddFollower(followers, userID, actorID, calls[c].profile.inbox, c, TRUE)
               IN /\ ~first.err
                  /\ Edges(userID, actorID) # {} => first.rows = followers
                  /\ \A d \in Calls, inbox \in Inboxes :
                        LET second == AddFollower(first.rows, userID, actorID, inbox, d, TRUE)
                        IN ~second.err /\ second.rows = first.rows)
    /\ [][\A c \in Calls :
            (/\ calls[c].pc = "add"
             /\ calls'[c].pc # "add"
             /\ Edges(calls[c].user, calls[c].profile.id) # {})
            => /\ followers' = followers
               /\ calls'[c].pc = "accept" \/ calls'[c].res = "err_add"]_vars

\* a Follow ran AddFollower without error for a pair whose edge another call
\* or the initial table had put there
C16_Witness ==
    \E c \in Calls :
        /\ Inserted(c)
        /\ EdgesBy(c) = {}
        /\ Edges(calls[c].user, calls[c].profile.id) # {}

\* C17: an Undo(Follow) for a pair that has no edge changes no follower, and
\* RemoveFollower returns no error for it, so HandleInbox returns none either
\* (short of a failure of the DELETE statement itself).
C17_UndoWithoutEdge ==
    /\ [](\A c \in Calls :
            (calls[c].pc = "undo" /\ Edges(calls[c].user, calls[c].body.actor) = {})
            => LET removed == RemoveFollower(followers, calls[c].user, calls[c].body.actor, TRUE)
               IN ~removed.err /\ removed.rows = followers)
    /\ [][\A c \in Calls :
            (/\ calls[c].pc = "undo"
             /\ calls'[c].pc # "undo"
             /\ Edges(calls[c].user, calls[c].body.actor) = {})
            => /\ followers' = followers
               /\ calls'[c].pc = "done"
               /\ calls'[c].res \in {"ok", "err_remove"}]_vars

\* an Undo(Follow) of an actor who never followed was answered without error
C17_Witness ==
    \E c \in Calls :
        /\ IsUndoFollow(c)
        /\ Done(c)
        /\ calls[c].res = "ok"
        /\ \A d \in Calls : ~IsFollow(d)
        /\ Edges(calls[c].user, calls[c].body.actor) = {}
        /\ followers = Preexisting

\* C14: every activities row is created with processed = false, and a row
\* whose processed flag is true keeps it true through every SaveActivity,
\* MarkActivityAsProcessed and HandleInbox step.
C14_ProcessedMonotonic ==
    [][/\ Len(activities') >= Len(activities)
       /\ \A i \in 1..Len(activities') :
            IF i > Len(activities)
            THEN ~activities'[i].processed
            ELSE /\ activities'[i].activity_id = activities[i].activity_id
                 /\ activities[i].processed => activities'[i].processed]_vars

\* a row is processed while the row of a call that started after the first
\* call had returned is unprocessed
C14_Witness ==
    /\ Len(activities) = 2
    /\ activities[1].processed
    /\ ~activities[2].processed
    /\ activities[1].call \in calls[activities[2].call].pred

\* C15: a row of the activities table is never deleted and none of its columns
\* but processed ever changes.
C15_RowsImmutable ==
    [][/\ Len(activities') >= Len(activities)
       /\ \A i \in 1..Len(activities) :
            activities'[i] = [activities[i] EXCEPT !.processed = activities'[i].processed]]_vars

\* a stored, processed row survived the delivery of a different activity under
\* its id
C15_Witness ==
    \E c, d \in Calls :
        /\ c # d
        /\ Cardinality(RowsOf(c)) = 1
        /\ calls[d].save = "conflict"
        /\ calls[d].body.id = calls[c].body.id
        /\ calls[d].body # calls[c].body
        /\ \A i \in RowsOf(c) :
            activities[i].processed /\ activities[i].raw_content = calls[c].body

\* the position of the row an activity was decoded from
RowOfContent(rawContent) ==
    CHOOSE i \in 1..Len(activities) : activities[i].raw_content = rawContent

\* C18: GetUnprocessedActivities(limit) returns at most limit activities, each
\* decoded from a row with processed = false, in the order the rows were
\* created, skipping no older unprocessed row; and a row that
\* MarkActivityAsProcessed has set to processed is in the result of no call
\* made in any later state.
C18_Unprocessed ==
    /\ [](\A limit \in Limits :
            LET got == GetUnprocessedActivities(activities, limit)
            IN /\ Len(got) <= limit
               /\ \A k \in 1..Len(got) :
                    /\ \E i \in 1..Len(activities) : activities[i].raw_content = got[k]
                    /\ ~activities[RowOfContent(got[k])].processed
                    /\ \A j \in 1..(RowOfContent(got[k]) - 1) :
                         ~activities[j].processed
                         => \E m \in 1..(k - 1) : RowOfContent(got[m]) = j
               /\ \A k, m \in 1..Len(got) :
                    k < m => RowOfContent(got[k]) < RowOfContent(got[m]))
    /\ [][\A i \in 1..Len(activities) :
            activities[i].processed
            => \A limit \in Limits :
                 \A k \in 1..Len(GetUnprocessedActivities(activities', limit)) :
                    GetUnprocessedActivities(activities', limit)[k] # activities[i].raw_content]_vars

\* with two unprocessed rows stored a limit of 1 cuts the result to the older
\* one, and with the older row marked only the newer one is returned
C18_Witness ==
    /\ Len(activities) = 2
    /\ activities[1].processed
    /\ ~activities[2].processed
    /\ GetUnprocessedActivities(activities, MaxLimit) = <<activities[2].raw_content>>
    /\ \E c \in Calls : Done(c) /\ RowsOf(c) = {2}

C20_SignedIffKey ==
    /\ \A r \in outbound :
            r.method = "POST" => (r.signed <=> UserPrivateKey(calls[r.call].user) # "")
    /\ \A c \in Calls :
            (Done(c) /\ UserPrivateKey(calls[c].user) = "")
            => /\ calls[c].sent
               /\ \E r \in PostsOf(c) : ~r.signed /\ r.url = calls[c].inbox
               /\ (calls[c].status >= 200 /\ calls[c].status <= 299) => calls[c].res = "ok"

\* a sender without a key delivered unsigned and a sender with a key signed
C20_Witness ==
    \E c, d \in Calls :
        /\ Done(c) /\ UserPrivateKey(calls[c].user) = "" /\ calls[c].res = "ok"
        /\ \E r \in PostsOf(c) : ~r.signed
        /\ Done(d) /\ UserPrivateKey(calls[d].user) # ""
        /\ \E r \in PostsOf(d) : r.signed

\* C21: a delivery for a sender whose non-empty private key signRequest cannot
\* use fails with signRequest's error and puts no request on the wire, signed
\* or unsigned; no other delivery fails with that error.
C21_SignFailureFatal ==
    \A c \in Calls :
        Done(c)
        => LET privateKey == UserPrivateKey(calls[c].user)
           IN /\ (privateKey # "" /\ ~signRequest(privateKey))
                 => /\ calls[c].res = "err_send"
                    /\ calls[c].why = "sign"
                    /\ ~calls[c].sent
                    /\ RequestsOf(c) = {}
              /\ calls[c].why = "sign" => (privateKey # "" /\ ~signRequest(privateKey))

\* a sender with an unparseable key tried to deliver while another sender's
\* delivery went out
C21_Witness ==
    \E c, d \in Calls :
        /\ Done(c)
        /\ UserPrivateKey(calls[c].user) = "broken-pem"
        /\ calls[c].why = "sign"
        /\ RequestsOf(c) = {}
        /\ Done(d)
        /\ PostsOf(d) # {}

\* the request of call c left signRequest with a Signature header
Signed(c) == Done(c) /\ calls[c].res = "ok"

\* C22: a signed request carries a Date header, and its signature verifies for
\* its own method, path, host and that Date value; it verifies for no signed
\* request that differs from it in method, path, host or date.
C22_SignatureCovers ==
    /\ \A c \in Calls :
            Signed(c)
            => LET r == calls[c].req
               IN /\ r.date \in SignDates
                  /\ Verifies(r.signature, UserPrivateKey(calls[c].user),
                              r.method, r.path, r.host, r.date)
    /\ \A c, d \in Calls :
            (Signed(c) /\ Signed(d))
            => LET r == calls[c].req
                   q == calls[d].req
               IN (r.method # q.method \/ r.path # q.path \/ r.host # q.host \/ r.date # q.date)
                  => ~Verifies(r.signature, UserPrivateKey(calls[d].user),
                               q.method, q.path, q.host, q.date)

\* two signed requests to different hosts at the same date, one of them with a
\* path that spells out the other's host line
C22_Witness ==
    \E c, d \in Calls :
        /\ Signed(c) /\ Signed(d)
        /\ calls[c].req.method = calls[d].req.method
        /\ calls[c].req.date = calls[d].req.date
        /\ calls[c].req.host = <<"h1">>
        /\ calls[c].req.path = <<"/a", "\nhost: ", "h2">>
        /\ calls[d].req.host = <<"h2">>
        /\ calls[d].req.path = <<"/a">>

\* C23: FetchActorPublicInformation returns an error when the answer's status
\* is outside 200..299 or its body does not decode, and returns the decoded
\* profile for every answer with a status in 200..299 and a decodable body.
C23_FetchIff2xx ==
    \A c \in Calls :
        (Done(c) /\ calls[c].op = "fetch")
        => LET reply == calls[c].reply
               good == /\ reply.status >= 200
                       /\ reply.status <= 299
                       /\ reply.decodable
           IN /\ ~good => calls[c].err
              /\ good => /\ ~calls[c].err
                         /\ calls[c].person = [id |-> reply.id, inbox |-> reply.inbox]

\* C24: for a decoded followers document GetActorFollowers returns the strings
\* of the list under "items" when there is one, those of the list under
\* "orderedItems" when there is one and no "items" list, and an error only
\* when the document has neither key.
C24_FollowersKeys ==
    \A c \in Calls :
        (/\ Done(c)
         /\ calls[c].op = "followers"
         /\ calls[c].reply.status = 200
         /\ calls[c].reply.decodable)
        => LET doc == calls[c].reply.doc
           IN /\ doc.items.kind = "list"
                 => /\ ~calls[c].err
                    /\ calls[c].followers = StringsOf(doc.items.elems)
              /\ (doc.items.kind # "list" /\ doc.orderedItems.kind = "list")
                 => /\ ~calls[c].err
                    /\ calls[c].followers = StringsOf(doc.orderedItems.elems)
              /\ calls[c].err
                 => (doc.items.kind = "absent" /\ doc.orderedItems.kind = "absent")

\* C25: the actor document GetActor builds for a user has the user's actor ID
\* (what GenerateActorID gives for the host and the username, the username
\* percent-encoded) as its id, and its inbox, outbox, following, followers and
\* liked URIs are that actor ID followed by a suffix that is the same for
\* every user.
C25_ActorDocument ==
    \A c \in Calls :
        Done(c)
        => LET doc == calls[c].doc
               actorID == calls[c].actor_id
           IN /\ doc.id = actorID
              /\ doc.inbox = actorID \o <<"/inbox">>
              /\ doc.outbox = actorID \o <<"/outbox">>
              /\ doc.following = actorID \o <<"/following">>
              /\ doc.followers = actorID \o <<"/followers">>
              /\ Len(doc.liked) = Len(actorID) + 1
              /\ SubSeq(doc.liked, 1, Len(actorID)) = actorID
              /\ \A d \in Calls :
                    Done(d) => calls[d].doc.liked[Len(calls[d].doc.liked)]
                               = doc.liked[Len(doc.liked)]

\* C26: every activity that a HandleInbox call for user U has stored is in the
\* result of GetUserInboxActivities(U), and every activity in that result was
\* stored by a HandleInbox call for U.
C26_InboxListing ==
    /\ \A c \in Calls :
            \A i \in RowsOf(c) :
                \E k \in 1..Len(GetUserInboxActivities(activities, calls[c].user)) :
                    GetUserInboxActivities(activities, calls[c].user)[k] = activities[i].raw_content
    /\ \A userID \in Users :
            \A k \in 1..Len(GetUserInboxActivities(activities, userID)) :
                \E c \in Calls :
                    /\ calls[c].user = userID
                    /\ \E i \in RowsOf(c) :
                        activities[i].raw_content = GetUserInboxActivities(activities, userID)[k]

\* C27: when a Follow from actor X to user U and an Undo(Follow) from X to U
\* overlap, the Undo's row is stored after the Follow's, no other call is
\* under way and both calls have returned without error, no follower edge
\* (U, X) is left.
C27_FollowUndoRace ==
    \A c, d \in Calls :
        (/\ IsFollow(c) /\ IsUndoFollow(d)
         /\ calls[c].user = calls[d].user
         /\ calls[c].body.actor = calls[d].body.actor
         /\ c \notin calls[d].pred
         /\ d \notin calls[c].pred
         /\ \A e \in Calls \ {c, d} : calls[e].pc = "idle"
         /\ Done(c) /\ calls[c].res = "ok"
         /\ Done(d) /\ calls[d].res = "ok"
         /\ \E i \in RowsOf(c), j \in RowsOf(d) : i < j)
        => Edges(calls[c].user, calls[c].body.actor) = {}

\* the profile GET a call has made
GetsOf(c) == {r \in outbound : r.call = c /\ r.method = "GET"}

\* C28: a Follow is handled in the order fetch profile, insert edge, send
\* Accept, and stops at the first failure: a call whose fetch failed has
\* inserted no edge and sent no Accept, a call whose insert failed has sent no
\* Accept, a call sends an Accept only after its own fetch and its own
\* AddFollower have returned without error, and when the Accept goes out to
\* the follower named in the Follow that follower has an edge.
C28_FollowOrder ==
    /\ [](\A c \in Calls :
            IsFollow(c)
            => /\ calls[c].pc = "fetch" => (GetsOf(c) = {} /\ EdgesBy(c) = {} /\ PostsOf(c) = {})
               /\ calls[c].pc = "add" => (GetsOf(c) # {} /\ EdgesBy(c) = {} /\ PostsOf(c) = {})
               /\ calls[c].pc = "accept" => PostsOf(c) = {}
               /\ calls[c].res = "err_fetch" => (EdgesBy(c) = {} /\ PostsOf(c) = {})
               /\ calls[c].res = "err_add" => (EdgesBy(c) = {} /\ PostsOf(c) = {})
               /\ PostsOf(c) # {} => (Inserted(c) /\ Done(c) /\ GetsOf(c) # {}))
    /\ [][\A c \in Calls :
            /\ EdgesBy(c)' \ EdgesBy(c) # {} => (calls[c].pc = "add" /\ GetsOf(c) # {})
            /\ PostsOf(c)' # PostsOf(c)
               => /\ calls[c].pc = "accept"
                  /\ Edges(calls[c].user, calls[c].body.actor) # {}]_vars

\* C29: when the delivery of the Accept fails, the step that fails changes no
\* follower, so the edge this call's AddFollower wrote stays in the table: a
\* call that has returned the delivery error leaves its edge behind unless an
\* Undo(Follow) for that follower is handled as well.
C29_NoRollback ==
    /\ [][\A c \in Calls :
            (calls[c].pc = "accept" /\ calls'[c].pc = "done")
            => /\ followers' = followers
               /\ calls'[c].res \in {"ok", "err_send", "err_getuser"}]_vars
    /\ [](\A c \in Calls :
            (/\ IsFollow(c)
             /\ calls[c].res = "err_send"
             /\ \A d \in Calls :
                    ~(/\ IsUndoFollow(d)
                      /\ calls[d].user = calls[c].user
                      /\ calls[d].body.actor = calls[c].profile.id))
            => Edges(calls[c].user, calls[c].profile.id) # {})

\* a Follow inserted its edge, the Accept was posted and refused, and the
\* edge is still there
C29_Witness ==
    \E c \in Calls :
        /\ IsFollow(c)
        /\ calls[c].res = "err_send"
        /\ PostsOf(c) # {}
        /\ EdgesBy(c) # {}
        /\ \A r \in PostsOf(c) : r.activity.type = ActivityTypeAccept

\* C30: every stored row has the object columns HandleInbox derives from the
\* object field: a string gives object_id = the string and an empty
\* object_type, a map gives its id and type (empty where the key is missing or
\* not a string), no object gives both empty; and a follower is removed only
\* by an Undo whose derived object type is Follow: an Undo with a bare
\* reference or another embedded type changes no follower and, once saved,
\* returns no error.
C30_ObjectNormalised ==
    /\ [](\A i \in 1..Len(activities) :
            LET row == activities[i]
                object == row.raw_content.object
            IN /\ object.kind = "string"
                  => (row.object_id = object.id /\ row.object_type = "")
               /\ object.kind = "map"
                  => (row.object_id = object.id /\ row.object_type = object.type)
               /\ object.kind = "absent"
                  => (row.object_id = "" /\ row.object_type = ""))
    /\ [](\A c \in Calls :
            (/\ calls[c].pc # "idle"
             /\ calls[c].body.ok
             /\ calls[c].body.type = ActivityTypeUndo
             /\ ~(calls[c].body.object.kind = "map"
                  /\ calls[c].body.object.type = ActivityTypeFollow))
            => /\ Done(c)
               /\ calls[c].save = "ok" => calls[c].res = "ok")
    /\ [][followers \ followers' # {}
          => \E c \in Calls :
                /\ calls[c].pc = "undo"
                /\ calls'[c].pc = "done"
                /\ calls[c].body.type = ActivityTypeUndo
                /\ calls[c].body.object.kind = "map"
                /\ calls[c].body.object.type = ActivityTypeFollow]_vars

\* an actor's Follow was handled, then the same actor's Undo with a bare
\* reference was stored and answered without error, and the edge is still there
C30_Witness ==
    \E c, d \in Calls :
        /\ IsFollow(d)
        /\ EdgesBy(d) # {}
        /\ d \in calls[c].pred
        /\ Done(c)
        /\ calls[c].body.type = ActivityTypeUndo
        /\ calls[c].body.object.kind = "string"
        /\ calls[c].body.actor = calls[d].body.actor
        /\ calls[c].user = calls[d].user
        /\ calls[c].res = "ok"
        /\ \A i \in RowsOf(c) : activities[i].object_id = "f" /\ activities[i].object_type = ""

====
